---- MODULE Spec2Model ----
(***************************************************************************)
(* Model of the autorace day-schedule pipeline:                            *)
(*   scrape_autorace_oddspark.py      crawler (listing -> venue pages ->   *)
(*                                    flat table)                          *)
(*   convert_autorace_csv_to_json.py  converter (flat table -> grouped     *)
(*                                    document)                            *)
(* Text is modelled as a sequence of one-character strings, so that        *)
(* parsing, formatting, joining and splitting are computed, not assumed.   *)
(***************************************************************************)
EXTENDS Integers, Sequences, FiniteSets, TLC

VARIABLES
    raceDy,      \* main: target date, "YYYYMMDD" as characters
    pc,          \* main: position of the crawler run
    try,         \* http_get: attempt number i of the running call, 0 when none
    last_exc,    \* http_get: an attempt of the running call raised
    links,       \* main: filtered venue-page references
    idx,         \* main: position of the `for url in links` loop
    rows_out,    \* main: accumulated flat rows
    out_csv,     \* the intermediate table file (NoFile when never written)
    exc,         \* the uncaught exception that ended the crawler run
    conv,        \* converter: "idle", "saved" or "exit2"
    out_json,    \* the grouped document file (NoFile when never written)
    first_links, \* history: filtered link set of the parameterless listing
    refetches,   \* history: number of date-parameterised listing fetches issued
    fetched,     \* history: venue pages whose http_get was started
    served,      \* history: the race blocks served on venue pages so far
    emitted,     \* history: every row returned by extract_races_from_oneday
    other_day,   \* history: a collected reference was of another date
    hhmm,        \* time normalizer: input start time
    date_str,    \* time normalizer: reference date
    closed,      \* time normalizer: returned closing time
    tpc          \* time normalizer: "call" or "done"

vars == <<raceDy, pc, try, last_exc, links, idx, rows_out, out_csv, exc, conv,
          out_json, first_links, refetches, fetched, served, emitted,
          other_day,
          hhmm, date_str, closed, tpc>>

mainVars == <<raceDy, pc, try, last_exc, links, idx, rows_out, out_csv, exc,
              first_links, refetches, fetched, served, emitted, other_day>>
convVars == <<conv, out_json>>
timeVars == <<hhmm, date_str, closed, tpc>>

-----------------------------------------------------------------------------
(* Bounds of the explored inputs *)
MaxAnchors == 2      \* anchors on a listing page
MaxBlocks == 2       \* race blocks on a venue page
MaxRows == 4         \* rows of an arbitrary intermediate table

-----------------------------------------------------------------------------
(* Text helpers *)
Digits == {"0", "1", "2", "3", "4", "5", "6", "7", "8", "9"}

DigitVal(c) ==
    CASE c = "0" -> 0 [] c = "1" -> 1 [] c = "2" -> 2 [] c = "3" -> 3
      [] c = "4" -> 4 [] c = "5" -> 5 [] c = "6" -> 6 [] c = "7" -> 7
      [] c = "8" -> 8 [] c = "9" -> 9

DigitChar(n) ==
    CASE n = 0 -> "0" [] n = 1 -> "1" [] n = 2 -> "2" [] n = 3 -> "3"
      [] n = 4 -> "4" [] n = 5 -> "5" [] n = 6 -> "6" [] n = 7 -> "7"
      [] n = 8 -> "8" [] n = 9 -> "9"

IsDigits(s) == Len(s) > 0 /\ \A i \in 1..Len(s) : s[i] \in Digits

\* int(s) for a run of decimal digits
RECURSIVE ParseInt(_)
ParseInt(s) ==
    IF Len(s) = 0 THEN 0
    ELSE 10 * ParseInt(SubSeq(s, 1, Len(s) - 1)) + DigitVal(s[Len(s)])

\* str(n) for n >= 0
RECURSIVE IntToStr(_)
IntToStr(n) ==
    IF n < 10 THEN <<DigitChar(n)>>
    ELSE IntToStr(n \div 10) \o <<DigitChar(n % 10)>>

\* f"{n:02d}" and strftime's %H, %M for n >= 0
Fmt02d(n) == IF n < 10 THEN <<"0", DigitChar(n)>> ELSE IntToStr(n)

\* positions of character c in s
Positions(s, c) == {i \in 1..Len(s) : s[i] = c}

\* s.split(c): the pieces between successive occurrences of c
RECURSIVE Split(_, _)
Split(s, c) ==
    IF Positions(s, c) = {} THEN <<s>>
    ELSE LET p == CHOOSE i \in Positions(s, c) :
                      \A j \in Positions(s, c) : i <= j
         IN <<SubSeq(s, 1, p - 1)>> \o Split(SubSeq(s, p + 1, Len(s)), c)

\* c.join(parts)
RECURSIVE Join(_, _)
Join(parts, c) ==
    IF Len(parts) = 0 THEN <<>>
    ELSE IF Len(parts) = 1 THEN parts[1]
    ELSE parts[1] \o <<c>> \o Join(Tail(parts), c)

\* re.sub(r"\s+", "", s)
RECURSIVE RemoveWS(_)
RemoveWS(s) ==
    IF Len(s) = 0 THEN <<>>
    ELSE IF Head(s) = " " THEN RemoveWS(Tail(s))
    ELSE <<Head(s)>> \o RemoveWS(Tail(s))

RECURSIVE SelectNonEmpty(_)
SelectNonEmpty(parts) ==
    IF Len(parts) = 0 THEN <<>>
    ELSE IF Len(Head(parts)) = 0 THEN SelectNonEmpty(Tail(parts))
    ELSE <<Head(parts)>> \o SelectNonEmpty(Tail(parts))

-----------------------------------------------------------------------------
(* Calendar: datetime.strptime(date_str, "%Y%m%d") as a proleptic Gregorian *)
(* day ordinal (date.toordinal()); timedelta arithmetic is arithmetic on    *)
(* minutes since the start of ordinal 0.                                    *)
IsLeap(y) == (y % 4 = 0) /\ ((y % 100 # 0) \/ (y % 400 = 0))

DaysBeforeMonth(y, m) ==
    LET cum == <<0, 31, 59, 90, 120, 151, 181, 212, 243, 273, 304, 334>>
    IN cum[m] + (IF m > 2 /\ IsLeap(y) THEN 1 ELSE 0)

strptime(d) ==
    LET y == ParseInt(SubSeq(d, 1, 4))
        m == ParseInt(SubSeq(d, 5, 6))
        dd == ParseInt(SubSeq(d, 7, 8))
    IN 365 * (y - 1) + ((y - 1) \div 4) - ((y - 1) \div 100)
         + ((y - 1) \div 400) + DaysBeforeMonth(y, m) + dd

MinutesPerDay == 1440

-----------------------------------------------------------------------------
(* Time normalizer *)

\* re.fullmatch(r"(\d{1,2}):(\d{2})", s)
TimeMatch(s) ==
    /\ Len(s) \in {4, 5}
    /\ s[Len(s) - 2] = ":"
    /\ \A i \in 1..Len(s) : i # Len(s) - 2 => s[i] \in Digits

HourOf(s) == ParseInt(SubSeq(s, 1, Len(s) - 3))
MinuteOf(s) == ParseInt(SubSeq(s, Len(s) - 1, Len(s)))

\* the rollback test of the >= 24 branch dropped
hhmm_to_closed_keep24(s, d) ==
    IF ~TimeMatch(s) THEN s
    ELSE LET h == HourOf(s)
             mi == MinuteOf(s)
         IN IF ~(0 <= mi /\ mi < 60) THEN s
            ELSE LET base == strptime(d) * MinutesPerDay
                     day_offset == IF h >= 24 THEN h \div 24 ELSE 0
                     h_real == IF h >= 24 THEN h % 24 ELSE h
                     start_dt == base + day_offset * MinutesPerDay
                                      + h_real * 60 + mi
                     closed_dt == start_dt - 2
                     c_hour == (closed_dt % MinutesPerDay) \div 60
                     c_minute == closed_dt % 60
                 IN IF h >= 24
                    THEN Fmt02d(c_hour + 24) \o <<":">> \o Fmt02d(c_minute)
                    ELSE Fmt02d(c_hour) \o <<":">> \o Fmt02d(c_minute)

hhmm_to_closed(s, d) ==
    IF ~TimeMatch(s) THEN s
    ELSE LET h == HourOf(s)
             mi == MinuteOf(s)
         IN IF ~(0 <= mi /\ mi < 60) THEN s
            ELSE LET base == strptime(d) * MinutesPerDay
                     day_offset == IF h >= 24 THEN h \div 24 ELSE 0
                     h_real == IF h >= 24 THEN h % 24 ELSE h
                     start_dt == base + day_offset * MinutesPerDay
                                      + h_real * 60 + mi
                     closed_dt == start_dt - 2
                     c_date == closed_dt \div MinutesPerDay
                     c_hour == (closed_dt % MinutesPerDay) \div 60
                     c_minute == closed_dt % 60
                 IN IF h >= 24
                    THEN LET next_day == base + MinutesPerDay
                         IN IF c_date = next_day \div MinutesPerDay
                            THEN Fmt02d(c_hour + 24) \o <<":">>
                                     \o Fmt02d(c_minute)
                            ELSE Fmt02d(c_hour) \o <<":">> \o Fmt02d(c_minute)
                    ELSE Fmt02d(c_hour) \o <<":">> \o Fmt02d(c_minute)

-----------------------------------------------------------------------------
(* list.sort(key=...): the stable order of a sequence of integer keys, as   *)
(* the sequence of source positions                                         *)
RECURSIVE StableOrder(_)
StableOrder(keys) ==
    IF Len(keys) = 0 THEN <<>>
    ELSE LET n == Len(keys)
             prev == StableOrder(SubSeq(keys, 1, n - 1))
             pos == Cardinality({i \in 1..(n - 1) : keys[i] <= keys[n]})
         IN SubSeq(prev, 1, pos) \o <<n>> \o SubSeq(prev, pos + 1, n - 1)

Reorder(s, order) == [i \in 1..Len(order) |-> s[order[i]]]

-----------------------------------------------------------------------------
(* Program constants.  Venue names are written in Latin letters. *)
PLACECD_TO_VENUE(placeCd) ==
    CASE placeCd = "02" -> "Kawaguchi"
      [] placeCd = "03" -> "Isesaki"
      [] placeCd = "04" -> "Hamamatsu"
      [] placeCd = "05" -> "Iizuka"
      [] placeCd = "06" -> "Sanyo"
      [] OTHER -> ""

max_retry == 3

NoFile == [exists |-> FALSE, rows |-> <<>>]

-----------------------------------------------------------------------------
(* Link discoverer.  An anchor of the listing page is the record            *)
(*   path      its href contains "/autorace/OneDayRaceList.do"              *)
(*   netloc_ok urlsplit accepts the href (no unbalanced "[" in the netloc)  *)
(*   raceDy, placeCd  first non-blank value of the query parameter, empty   *)
(*             when the parameter is absent or blank (parse_qs drops blanks)*)
(* A reference is the anchor's absolute URL, here its two parameters.       *)
UrlOf(a) == [raceDy |-> a.raceDy, placeCd |-> a.placeCd]

RECURSIVE CollectLoop(_, _, _)
CollectLoop(anchors, found, seen) ==
    IF Len(anchors) = 0 THEN [raised |-> FALSE, found |-> found]
    ELSE LET a == Head(anchors)
             rest == Tail(anchors)
             key == <<a.raceDy, a.placeCd>>
         IN IF ~a.path THEN CollectLoop(rest, found, seen)
            ELSE IF ~a.netloc_ok THEN [raised |-> TRUE, found |-> found]
            ELSE IF a.raceDy = <<>> \/ a.placeCd = ""
                 THEN CollectLoop(rest, found, seen)
            ELSE IF key \in seen THEN CollectLoop(rest, found, seen)
            ELSE CollectLoop(rest, Append(found, UrlOf(a)), seen \cup {key})

\* soup.select(...) keeps the anchors whose href has the path; the fallback to
\* #raceToday selects among the same anchors and so finds nothing more.
collect_oneday_links(kaisai_html) == CollectLoop(kaisai_html, <<>>, {})

RECURSIVE FilterLoopNoDay(_, _, _, _)
FilterLoopNoDay(ls, day, filtered, seen) ==
    IF Len(ls) = 0 THEN filtered
    ELSE LET u == Head(ls)
             key == <<u.raceDy, u.placeCd>>
         IN IF u.placeCd # "" /\ key \notin seen
            THEN FilterLoopNoDay(Tail(ls), day, Append(filtered, u),
                                 seen \cup {key})
            ELSE FilterLoopNoDay(Tail(ls), day, filtered, seen)

RECURSIVE FilterLoop(_, _, _, _)
FilterLoop(ls, day, filtered, seen) ==
    IF Len(ls) = 0 THEN filtered
    ELSE LET u == Head(ls)
             key == <<u.raceDy, u.placeCd>>
         IN IF u.raceDy = day /\ u.placeCd # "" /\ key \notin seen
            THEN FilterLoop(Tail(ls), day, Append(filtered, u),
                            seen \cup {key})
            ELSE FilterLoop(Tail(ls), day, filtered, seen)

\* the date test of the filter dropped
filter_links_any_day(_links, _raceDy) == FilterLoopNoDay(_links, _raceDy, <<>>, {})

_filter_links_by_day(_links, _raceDy) == FilterLoop(_links, _raceDy, <<>>, {})

-----------------------------------------------------------------------------
(* Race extractor.  A race block (div.h30) of a venue page is the record    *)
(*   a        it has strong > a[href*="/autorace/RaceList.do"]              *)
(*   ordinal  the digits matched by (\d+)\s*R\b in the heading, <<>> if none*)
(*   cat      the tier keyword matched in the heading, "" if none           *)
(*   st       span.start-time strong: [present, text]                       *)
(*   near, near2  the H:MM text matched after the departure label in the    *)
(*            block text, resp. in its first five elements: [found, text]   *)
(*   table    "none": no table follows; "other": a table without a roster   *)
(*            keyword; "roster"                                             *)
(*   trs      the rows of that table, each the record                       *)
(*     tds     number of td cells                                           *)
(*     bg      a td with class bg-1..bg-8 exists                            *)
(*     car_txt its text                                                     *)
(*     racer1  td.racer1: [present, text]                                   *)
(*     cand    first non-empty td after the first: [present, text]          *)

\* start_time of a block: [kind |-> "raise" | "none" | "time", text]
StartTimeOf(b) ==
    IF ~b.st.present
    THEN LET m2 == IF b.near.found THEN b.near ELSE b.near2
         IN IF m2.found
            THEN LET parts == Split(m2.text, ":")
                 IN [kind |-> "time",
                     text |-> Fmt02d(ParseInt(parts[1])) \o <<":">>
                                  \o Fmt02d(ParseInt(parts[2]))]
            ELSE [kind |-> "none", text |-> <<>>]
    ELSE LET parts == Split(b.st.text, ":")
         IN IF Len(parts) # 2 THEN [kind |-> "raise", text |-> <<>>]
            ELSE IF ~IsDigits(parts[1]) \/ ~IsDigits(parts[2])
                 THEN [kind |-> "raise", text |-> <<>>]
            ELSE [kind |-> "time",
                  text |-> Fmt02d(ParseInt(parts[1])) \o <<":">>
                               \o Fmt02d(ParseInt(parts[2]))]

\* one table row: <<>> when skipped, else <<"<car><name>">>
PlayerOf(tr) ==
    IF tr.tds = 0 THEN <<>>
    ELSE IF ~tr.bg THEN <<>>
    ELSE IF ~(Len(tr.car_txt) = 1 /\ tr.car_txt[1] \in
                 {"1", "2", "3", "4", "5", "6", "7", "8"}) THEN <<>>
    ELSE LET name_cell == IF tr.racer1.present THEN tr.racer1 ELSE tr.cand
         IN IF ~name_cell.present THEN <<>>
            ELSE <<tr.car_txt \o RemoveWS(name_cell.text)>>

RECURSIVE PlayersOf(_)
PlayersOf(trs) ==
    IF Len(trs) = 0 THEN <<>>
    ELSE PlayerOf(Head(trs)) \o PlayersOf(Tail(trs))

\* a roster over the limit is cut to its first eight rows
PlayersOfTruncating(trs) ==
    LET ps == PlayersOf(trs)
    IN IF Len(ps) > 8 THEN SubSeq(ps, 1, 8) ELSE ps

\* one iteration of `for box in soup.select("div.h30")`
\*   [kind |-> "raise" | "skip" | "row", row]
NoRow == [race_no |-> 0, start_time |-> <<>>, closed_at |-> <<>>,
          players |-> <<>>, cat |-> ""]

ExtractBlockWith(b, day, players) ==
    IF ~b.a THEN [kind |-> "skip", row |-> NoRow]
    ELSE IF b.ordinal = <<>> THEN [kind |-> "skip", row |-> NoRow]
    ELSE LET race_no == ParseInt(b.ordinal)
             start_time == StartTimeOf(b)
         IN IF start_time.kind = "raise" THEN [kind |-> "raise", row |-> NoRow]
            ELSE IF b.table # "roster" THEN [kind |-> "skip", row |-> NoRow]
            ELSE IF 6 <= Len(players) /\ Len(players) <= 8
                    /\ start_time.kind = "time"
                 THEN [kind |-> "row",
                       row |-> [race_no |-> race_no,
                                start_time |-> start_time.text,
                                closed_at |-> hhmm_to_closed(start_time.text, day),
                                players |-> players,
                                cat |-> b.cat]]
            ELSE [kind |-> "skip", row |-> NoRow]

ExtractBlockTruncating(b, day) == ExtractBlockWith(b, day, PlayersOfTruncating(b.trs))

ExtractBlock(b, day) == ExtractBlockWith(b, day, PlayersOf(b.trs))

-----------------------------------------------------------------------------
(* Grouping aggregator (convert_autorace_csv_to_json.py).  A row of the     *)
(* intermediate table is a record of its eight fields, race_number being    *)
(* the decimal text the csv writer produced.                                *)

\* the lower limit of the validation off by one
RosterAbove6(players) == 6 < Len(players) /\ Len(players) <= 8

\* 6 <= len(players) <= 8
RosterOk(players) == 6 <= Len(players) /\ Len(players) <= 8

KeyIndex(groups, venue, grade) ==
    {i \in 1..Len(groups) : groups[i].venue = venue /\ groups[i].grade = grade}

\* `for row in r`: groups is the insertion-ordered dict as a sequence
RECURSIVE GroupLoop(_, _)
GroupLoop(rows, groups) ==
    IF Len(rows) = 0 THEN groups
    ELSE LET row == Head(rows)
             players == SelectNonEmpty(Split(row.players, ","))
         IN IF ~RosterOk(players) THEN GroupLoop(Tail(rows), groups)
            ELSE LET races_item ==
                         [race_number |-> ParseInt(row.race_number),
                          start_time |-> row.start_time,
                          closed_at |-> row.closed_at,
                          players |-> players,
                          class_category |-> row.class_category]
                     at == KeyIndex(groups, row.venue, row.grade)
                 IN IF at = {}
                    THEN GroupLoop(Tail(rows),
                             Append(groups, [venue |-> row.venue,
                                             grade |-> row.grade,
                                             races |-> <<races_item>>]))
                    ELSE LET k == CHOOSE i \in at : TRUE
                         IN GroupLoop(Tail(rows),
                                [groups EXCEPT ![k].races =
                                     Append(@, races_item)])

\* races left in arrival order
UnsortedItems(items) == items

SortItems(items) ==
    Reorder(items, StableOrder([i \in 1..Len(items) |-> items[i].race_number]))

\* the grouped document built from the rows of the table
Aggregate(rows) ==
    LET groups == GroupLoop(rows, <<>>)
    IN [g \in 1..Len(groups) |->
            [venue |-> groups[g].venue,
             grade |-> groups[g].grade,
             races |-> SortItems(groups[g].races)]]

-----------------------------------------------------------------------------
(* Orchestrator (main of scrape_autorace_oddspark.py) *)

\* csv.writer: one table row per accumulated row, race_no written by str()
CsvRow(r) ==
    [date |-> r.date, venue |-> r.venue, grade |-> r.grade,
     race_number |-> IntToStr(r.race_no), start_time |-> r.start_time,
     closed_at |-> r.closed_at, players |-> r.players,
     class_category |-> r.class_category]

\* the rows appended to rows_out for one extracted page
RowsOf(data, dy) ==
    [i \in 1..Len(data.rows) |->
        [date |-> dy, venue |-> data.venue, grade |-> data.grade,
         race_no |-> data.rows[i].race_no,
         start_time |-> data.rows[i].start_time,
         closed_at |-> data.rows[i].closed_at,
         players |-> Join(data.rows[i].players, ","),
         class_category |-> data.rows[i].cat]]

\* the loop's guards before http_get: a reference lacking a field or of
\* another day is skipped
Skipped(u, day) == u.raceDy = <<>> \/ u.placeCd = "" \/ u.raceDy # day

RECURSIVE NextTarget(_, _, _)
NextTarget(ls, i, day) ==
    IF i > Len(ls) THEN i
    ELSE IF Skipped(ls[i], day) THEN NextTarget(ls, i + 1, day)
    ELSE i

\* the table is written even when no row was accumulated
ContinueAlwaysWrite(ls, i, rows) ==
    LET j == NextTarget(ls, i, raceDy)
    IN /\ links' = ls
       /\ rows_out' = rows
       /\ idx' = j
       /\ last_exc' = FALSE
       /\ exc' = exc
       /\ IF j <= Len(ls)
          THEN /\ pc' = "Crawl"
               /\ try' = 1
               /\ fetched' = Append(fetched, ls[j])
               /\ out_csv' = out_csv
          ELSE /\ pc' = "Written"
               /\ try' = 0
               /\ fetched' = fetched
               /\ out_csv' = [exists |-> TRUE,
                              rows |-> [k \in 1..Len(rows) |-> CsvRow(rows[k])]]

\* main from position i of `for url in links` up to the next http_get, or
\* through the table output when the loop is over
Continue(ls, i, rows) ==
    LET j == NextTarget(ls, i, raceDy)
    IN /\ links' = ls
       /\ rows_out' = rows
       /\ idx' = j
       /\ last_exc' = FALSE
       /\ exc' = exc
       /\ IF j <= Len(ls)
          THEN /\ pc' = "Crawl"
               /\ try' = 1
               /\ fetched' = Append(fetched, ls[j])
               /\ out_csv' = out_csv
          ELSE /\ pc' = "Written"
               /\ try' = 0
               /\ fetched' = fetched
               /\ out_csv' = IF Len(rows) > 0
                             THEN [exists |-> TRUE,
                                   rows |-> [k \in 1..Len(rows) |-> CsvRow(rows[k])]]
                             ELSE out_csv

\* the run dies with an uncaught exception raised in `where`
Abort(where) ==
    /\ pc' = "Aborted"
    /\ exc' = where
    /\ try' = 0
    /\ last_exc' = FALSE
    /\ UNCHANGED <<links, idx, rows_out, out_csv, fetched>>

-----------------------------------------------------------------------------
(* What the site may serve *)
SeqUpTo(S, n) == UNION {[1..k -> S] : k \in 0..n}

D1 == <<"2", "0", "2", "5", "1", "2", "3", "1">>
D2 == <<"2", "0", "2", "6", "0", "1", "0", "1">>
TargetDates == {D1, D2}

Anchor(path, ok, dy, cd) ==
    [path |-> path, netloc_ok |-> ok, raceDy |-> dy, placeCd |-> cd]

AnchorCatalog ==
    { Anchor(TRUE, TRUE, D1, "02"),     \* a venue page of D1
      Anchor(TRUE, TRUE, D1, "07"),     \* venue code outside the table
      Anchor(TRUE, TRUE, D2, "02"),     \* a venue page of D2
      Anchor(TRUE, TRUE, <<>>, "02"),   \* raceDy absent
      Anchor(TRUE, TRUE, D1, ""),       \* placeCd absent
      Anchor(FALSE, TRUE, D1, "03"),    \* some other link
      Anchor(TRUE, FALSE, D1, "03") }   \* href that urlsplit rejects

ListingTexts == SeqUpTo(AnchorCatalog, MaxAnchors)

Elem(text) == [present |-> TRUE, text |-> text]
NoElem == [present |-> FALSE, text |-> <<>>]
Match(text) == [found |-> TRUE, text |-> text]
NoMatch == [found |-> FALSE, text |-> <<>>]

Lane(i) == DigitChar(((i - 1) % 8) + 1)

PlainName == <<"A", " ", "b">>
CommaName == <<"A", ",", "b">>
TrailName == <<"A", ",">>

TR(car, name) ==
    [tds |-> 4, bg |-> TRUE, car_txt |-> <<car>>, racer1 |-> Elem(name),
     cand |-> Elem(name)]
HeaderTR ==
    [tds |-> 0, bg |-> FALSE, car_txt |-> <<>>, racer1 |-> NoElem, cand |-> NoElem]
NoteTR ==
    [tds |-> 1, bg |-> FALSE, car_txt |-> <<>>, racer1 |-> NoElem, cand |-> NoElem]
BadCarTR ==
    [tds |-> 4, bg |-> TRUE, car_txt |-> <<"1", "0">>, racer1 |-> Elem(PlainName),
     cand |-> Elem(PlainName)]
FallbackTR(car, name) ==
    [tds |-> 4, bg |-> TRUE, car_txt |-> <<car>>, racer1 |-> NoElem,
     cand |-> Elem(name)]
NamelessTR(car) ==
    [tds |-> 1, bg |-> TRUE, car_txt |-> <<car>>, racer1 |-> NoElem,
     cand |-> NoElem]

\* a roster table of n accepted rows, the first carrying the name `first`
Roster(n, first) ==
    <<HeaderTR>> \o [i \in 1..n |-> TR(Lane(i), IF i = 1 THEN first ELSE PlainName)]

Block(a, ordinal, cat, st, near, near2, table, trs) ==
    [a |-> a, ordinal |-> ordinal, cat |-> cat, st |-> st, near |-> near,
     near2 |-> near2, table |-> table, trs |-> trs]

T1848 == <<"1", "8", ":", "4", "8">>
T2401 == <<"2", "4", ":", "0", "1">>
T2405 == <<"2", "4", ":", "0", "5">>
T905 == <<"9", ":", "0", "5">>
TUndecided == <<"T", "B", "D">>

\* the race blocks a venue page is made of; a page is a sequence of
\* positions of this catalogue
BlockCatalog ==
    << Block(TRUE, <<"1">>, "yosen", Elem(T1848), NoMatch, NoMatch, "roster",
             Roster(6, PlainName)),
       Block(TRUE, <<"1">>, "", Elem(T2401), NoMatch, NoMatch, "roster",
             Roster(8, CommaName)),
       Block(TRUE, <<"2">>, "ippan", NoElem, NoMatch, Match(T905), "roster",
             <<HeaderTR, NoteTR, BadCarTR, NamelessTR("8"),
               FallbackTR("1", PlainName)>> \o Tail(Tail(Roster(7, PlainName)))),
       Block(TRUE, <<"2">>, "", Elem(T2405), NoMatch, NoMatch, "roster",
             Roster(9, PlainName)),
       Block(TRUE, <<"3">>, "", Elem(T1848), NoMatch, NoMatch, "roster",
             Roster(5, TrailName)),
       Block(TRUE, <<"3">>, "", Elem(TUndecided), NoMatch, NoMatch, "roster",
             Roster(6, PlainName)),
       Block(TRUE, <<"4">>, "", NoElem, NoMatch, NoMatch, "roster",
             Roster(6, PlainName)),
       Block(TRUE, <<"4">>, "", Elem(T1848), NoMatch, NoMatch, "other",
             Roster(6, PlainName)),
       Block(FALSE, <<>>, "", NoElem, NoMatch, NoMatch, "none", <<>>) >>

BlockIds == DOMAIN BlockCatalog

PageTexts == SeqUpTo(BlockIds, MaxBlocks)

\* the loop iteration on each block of the catalogue, tabulated
BlockResult ==
    [i \in BlockIds |-> [d \in TargetDates |-> ExtractBlock(BlockCatalog[i], d)]]

\* `for box in soup.select("div.h30")` over the page's blocks
RECURSIVE ExtractLoop(_, _, _)
ExtractLoop(blocks, day, race_sections) ==
    IF Len(blocks) = 0 THEN [raised |-> FALSE, rows |-> race_sections]
    ELSE LET r == BlockResult[Head(blocks)][day]
         IN IF r.kind = "raise" THEN [raised |-> TRUE, rows |-> <<>>]
            ELSE IF r.kind = "row"
                 THEN ExtractLoop(Tail(blocks), day, Append(race_sections, r.row))
            ELSE ExtractLoop(Tail(blocks), day, race_sections)

extract_races_from_oneday(html, day, placeCd) ==
    LET r == ExtractLoop(html, day, <<>>)
        keys == [i \in 1..Len(r.rows) |-> r.rows[i].race_no]
    IN [raised |-> r.raised,
        venue |-> PLACECD_TO_VENUE(placeCd),
        grade |-> "",
        rows |-> Reorder(r.rows, StableOrder(keys))]


-----------------------------------------------------------------------------
(* http_get: one step per attempt of `for i in range(1, max_retry + 1)` *)

Fetching == pc \in {"ListingNoParam", "ListingWithDay", "Crawl"} /\ try >= 1

\* an attempt that does not return: 200 with an empty body, an error status,
\* or an exception of requests.get
FailKinds == {"empty", "status", "exc"}

\* http_get returns at this attempt: a 200 answer with a body ("ok"), or,
\* when the last attempt answered 200 with an empty body and nothing raised,
\* that empty answer ("empty")
Returns(kind) == kind = "ok" \/ (kind = "empty" /\ try = max_retry /\ ~last_exc)

BodiesOf(kind, texts) == IF kind = "ok" THEN texts ELSE {<<>>}

\* an attempt fails and the loop goes on
HttpRetry ==
    /\ Fetching
    /\ try < max_retry
    /\ \E kind \in FailKinds :
          /\ try' = try + 1
          /\ last_exc' = (last_exc \/ kind = "exc")
    /\ UNCHANGED <<raceDy, pc, links, idx, rows_out, out_csv, exc, first_links,
                   refetches, fetched, served, emitted, other_day>>
    /\ UNCHANGED convVars
    /\ UNCHANGED timeVars

\* the last attempt fails and http_get raises (last_exc or raise_for_status)
HttpRaise ==
    /\ Fetching
    /\ try = max_retry
    /\ \E kind \in FailKinds : last_exc \/ kind = "exc" \/ kind = "status"
    /\ Abort("http_get")
    /\ UNCHANGED <<raceDy, first_links, refetches, served, emitted, other_day>>
    /\ UNCHANGED convVars
    /\ UNCHANGED timeVars

OtherDay(found) == \E i \in 1..Len(found) : found[i].raceDy # raceDy

\* main after http_get(KAISAI_URL) returned `text`, up to its next http_get
AfterListing(text) ==
    LET c == collect_oneday_links(text)
        ls == _filter_links_by_day(c.found, raceDy)
    IN IF c.raised
       THEN /\ Abort("collect_oneday_links")
            /\ UNCHANGED <<first_links, refetches, other_day>>
       ELSE /\ first_links' = [done |-> TRUE, links |-> ls]
            /\ other_day' = (other_day \/ OtherDay(c.found))
            /\ IF Len(ls) = 0
               THEN /\ pc' = "ListingWithDay"
                    /\ try' = 1
                    /\ last_exc' = FALSE
                    /\ links' = ls
                    /\ refetches' = refetches + 1
                    /\ UNCHANGED <<idx, rows_out, out_csv, exc, fetched>>
               ELSE /\ Continue(ls, 1, rows_out)
                    /\ UNCHANGED refetches

\* main after http_get(KAISAI_URL + "?raceDy=...") returned `text`
AfterRetry(text) ==
    LET c == collect_oneday_links(text)
        ls == _filter_links_by_day(c.found, raceDy)
    IN IF c.raised
       THEN /\ Abort("collect_oneday_links")
            /\ UNCHANGED other_day
       ELSE /\ other_day' = (other_day \/ OtherDay(c.found))
            /\ Continue(ls, 1, rows_out)

\* the loop body after http_get(url) returned the page `html`, and the loop
\* up to its next http_get
AfterPage(html) ==
    LET url == links[idx]
        data == extract_races_from_oneday(html, url.raceDy, url.placeCd)
    IN /\ served' = served \cup {html[i] : i \in 1..Len(html)}
       /\ IF data.raised
          THEN /\ Abort("extract_races_from_oneday")
               /\ UNCHANGED emitted
          ELSE /\ emitted' = emitted \o data.rows
               /\ Continue(links, idx + 1, rows_out \o RowsOf(data, url.raceDy))

ListingFetched ==
    /\ pc = "ListingNoParam"
    /\ try >= 1
    /\ \E kind \in {"ok", "empty"} :
          /\ Returns(kind)
          /\ \E text \in BodiesOf(kind, ListingTexts) : AfterListing(text)
    /\ UNCHANGED <<raceDy, served, emitted>>
    /\ UNCHANGED convVars
    /\ UNCHANGED timeVars

RetryFetched ==
    /\ pc = "ListingWithDay"
    /\ try >= 1
    /\ \E kind \in {"ok", "empty"} :
          /\ Returns(kind)
          /\ \E text \in BodiesOf(kind, ListingTexts) : AfterRetry(text)
    /\ UNCHANGED <<raceDy, first_links, refetches, served, emitted>>
    /\ UNCHANGED convVars
    /\ UNCHANGED timeVars

PageFetched ==
    /\ pc = "Crawl"
    /\ try >= 1
    /\ \E kind \in {"ok", "empty"} :
          /\ Returns(kind)
          /\ \E html \in BodiesOf(kind, PageTexts) : AfterPage(html)
    /\ UNCHANGED <<raceDy, first_links, refetches, other_day>>
    /\ UNCHANGED convVars
    /\ UNCHANGED timeVars

\* a later run of the converter for the same date
Convert ==
    /\ pc \in {"Written", "Aborted"}
    /\ conv = "idle"
    /\ IF ~out_csv.exists
       THEN /\ conv' = "exit2"
            /\ UNCHANGED out_json
       ELSE /\ conv' = "saved"
            /\ out_json' = [exists |-> TRUE, groups |-> Aggregate(out_csv.rows)]
    /\ UNCHANGED mainVars
    /\ UNCHANGED timeVars

\* one call of the time normalizer
Normalize ==
    /\ tpc = "call"
    /\ closed' = hhmm_to_closed(hhmm, date_str)
    /\ tpc' = "done"
    /\ UNCHANGED <<hhmm, date_str>>
    /\ UNCHANGED mainVars
    /\ UNCHANGED convVars

-----------------------------------------------------------------------------
(* Specifications *)

NoJson == [exists |-> FALSE, groups |-> <<>>]

InitMain ==
    /\ raceDy \in TargetDates
    /\ pc = "ListingNoParam"
    /\ try = 1
    /\ last_exc = FALSE
    /\ links = <<>>
    /\ idx = 0
    /\ rows_out = <<>>
    /\ out_csv = NoFile
    /\ exc = "none"
    /\ first_links = [done |-> FALSE, links |-> <<>>]
    /\ refetches = 0
    /\ fetched = <<>>
    /\ served = {}
    /\ emitted = <<>>
    /\ other_day = FALSE

TimeIdle ==
    /\ hhmm = <<>>
    /\ date_str = D1
    /\ closed = <<>>
    /\ tpc = "idle"

\* the crawler run followed by the converter
Init ==
    /\ InitMain
    /\ conv = "idle"
    /\ out_json = NoJson
    /\ TimeIdle

Next ==
    \/ HttpRetry
    \/ HttpRaise
    \/ ListingFetched
    \/ RetryFetched
    \/ PageFetched
    \/ Convert

Spec == Init /\ [][Next]_vars

\* the time normalizer on every text of the shape D:DD, DD:DD or DDD:DD
HourTexts == UNION {[1..k -> Digits] : k \in 1..2} \cup {<<"1", "0", "0">>}
MinuteTexts == [1..2 -> Digits]
TimeTexts == {hh \o <<":">> \o mm : hh \in HourTexts, mm \in MinuteTexts}

InitTime ==
    /\ hhmm \in TimeTexts
    /\ date_str \in TargetDates
    /\ closed = <<>>
    /\ tpc = "call"
    /\ raceDy = date_str
    /\ pc = "Written"
    /\ try = 0
    /\ last_exc = FALSE
    /\ links = <<>>
    /\ idx = 0
    /\ rows_out = <<>>
    /\ out_csv = NoFile
    /\ exc = "none"
    /\ first_links = [done |-> FALSE, links |-> <<>>]
    /\ refetches = 0
    /\ fetched = <<>>
    /\ served = {}
    /\ emitted = <<>>
    /\ other_day = FALSE
    /\ conv = "saved"
    /\ out_json = NoJson

NextTime == Normalize

SpecTime == InitTime /\ [][NextTime]_vars

\* the converter on an arbitrary intermediate table
SixPlayers ==
    Join([i \in 1..6 |-> <<Lane(i)>> \o RemoveWS(PlainName)], ",")
FivePlayers ==
    Join([i \in 1..5 |-> <<Lane(i)>> \o RemoveWS(PlainName)], ",")

TableRow(venue, grade, no, players) ==
    [date |-> D1, venue |-> venue, grade |-> grade, race_number |-> no,
     start_time |-> T1848, closed_at |-> hhmm_to_closed(T1848, D1),
     players |-> players, class_category |-> ""]

TableRows ==
    { TableRow(k[1], k[2], no, players) :
        k \in {<<"Kawaguchi", "">>, <<"Isesaki", "">>, <<"Kawaguchi", "G1">>},
        no \in {<<"2">>, <<"1", "0">>},
        players \in {SixPlayers, FivePlayers} }

InitAgg ==
    /\ out_csv \in {[exists |-> TRUE, rows |-> rows] :
                        rows \in SeqUpTo(TableRows, MaxRows)} \cup {NoFile}
    /\ conv = "idle"
    /\ out_json = NoJson
    /\ raceDy = D1
    /\ pc = "Written"
    /\ try = 0
    /\ last_exc = FALSE
    /\ links = <<>>
    /\ idx = 0
    /\ rows_out = <<>>
    /\ exc = "none"
    /\ first_links = [done |-> FALSE, links |-> <<>>]
    /\ refetches = 0
    /\ fetched = <<>>
    /\ served = {}
    /\ emitted = <<>>
    /\ other_day = FALSE
    /\ TimeIdle

NextAgg == Convert

SpecAgg == InitAgg /\ [][NextAgg]_vars

-----------------------------------------------------------------------------
(* Properties of the time normalizer (under SpecTime) *)

\* the inputs hhmm_to_closed accepts: H:MM or HH:MM with minute 0..59
Accepted(s) == TimeMatch(s) /\ MinuteOf(s) < 60

\* the instant, in minutes, that "HH:MM" denotes under the programme-day
\* convention: hour h is day d + floor(h/24) at hour h mod 24
Denotes(s, d) ==
    (strptime(d) + (HourOf(s) \div 24)) * 1440 + (HourOf(s) % 24) * 60
        + MinuteOf(s)

TwoDigits(n) == <<DigitChar(n \div 10), DigitChar(n % 10)>>

\* C1: for every accepted start time and reference date, the returned text,
\* read under the programme-day convention, denotes the instant exactly two
\* minutes before the instant the input denotes.
C1_TwoMinutesBefore ==
    (tpc = "done" /\ Accepted(hhmm)) =>
        /\ TimeMatch(closed)
        /\ Denotes(closed, date_str) = Denotes(hhmm, date_str) - 2

\* the rendering the formatting rule prescribes for an accepted input
Rendering(s, d) ==
    LET h == HourOf(s)
        ref == strptime(d) * 1440
        t == ref + 60 * h + MinuteOf(s) - 2
        onNextDay == ref + 1440 <= t /\ t < ref + 2880
        hr == (t % 1440) \div 60
        mn == t % 60
    IN IF h >= 24 /\ onNextDay
       THEN TwoDigits(hr + 24) \o <<":">> \o TwoDigits(mn)
       ELSE TwoDigits(hr) \o <<":">> \o TwoDigits(mn)

-----------------------------------------------------------------------------
(* Properties of the crawler run (under Spec) *)

\* C3: a venue page whose fetch fails after its retries is skipped alone; with
\* references still to visit the run is not ended by that failure.
C3_FailedPageSkipped ==
    ~(pc = "Aborted" /\ exc = "http_get" /\ idx >= 1 /\ idx < Len(links))

OfTargetDay(ls) == \A i \in 1..Len(ls) : ls[i].raceDy = raceDy

\* C4: the filtered link set, after the first fetch and after the retry, holds
\* only references of the target date; no page of another date is fetched and
\* no row of another date is accumulated.
C4_OnlyTargetDay ==
    /\ OfTargetDay(links)
    /\ OfTargetDay(first_links.links)
    /\ OfTargetDay(fetched)
    /\ \A i \in 1..Len(rows_out) : rows_out[i].date = raceDy
    /\ \A i \in 1..Len(out_csv.rows) : out_csv.rows[i].date = raceDy

C4_Witness ==
    other_day /\ pc = "Written" /\ Len(fetched) > 0 /\ Len(rows_out) > 0

\* C8: whatever the listing or the page holds, collect_oneday_links and
\* extract_races_from_oneday return; no exception of theirs ends the run.
C8_NoExceptionPropagates ==
    ~(pc = "Aborted"
        /\ exc \in {"collect_oneday_links", "extract_races_from_oneday"})

SameGroup(r1, r2) ==
    r1.date = r2.date /\ r1.venue = r2.venue /\ r1.grade = r2.grade

\* C9: no two races of the flat table with the same (date, venue, grade) have
\* the same race number, and no group of the grouped document holds a race
\* number twice.
C9_UniqueRaceNumbers ==
    /\ \A i, j \in 1..Len(rows_out) :
          (i < j /\ SameGroup(rows_out[i], rows_out[j]))
              => rows_out[i].race_no # rows_out[j].race_no
    /\ \A g \in 1..Len(out_json.groups) :
          \A i, j \in 1..Len(out_json.groups[g].races) :
              i < j => out_json.groups[g].races[i].race_number
                           # out_json.groups[g].races[j].race_number

\* C10: the listing is refetched with the date parameter exactly when the
\* parameterless listing filtered to nothing, and at most once; when the retry
\* filters to nothing too, no venue page is fetched and the run ends in Written
\* with no row and no table.
C10_RetryOnceWhenEmpty ==
    /\ refetches <= 1
    /\ ~first_links.done => refetches = 0
    /\ first_links.done => (refetches = 1 <=> Len(first_links.links) = 0)
    /\ (refetches = 1 /\ pc # "ListingWithDay" /\ exc = "none" /\ Len(links) = 0)
          => /\ pc = "Written"
             /\ Len(fetched) = 0
             /\ Len(rows_out) = 0
             /\ ~out_csv.exists

C10_Witness ==
    refetches = 1 /\ pc = "Written" /\ Len(links) = 0 /\ conv = "exit2"

-----------------------------------------------------------------------------
(* Properties of the rosters and of the grouped document *)

InRange6To8(n) == 6 <= n /\ n <= 8

\* the entries of a players field: its non-empty comma-separated pieces
Entries(field) == SelectNonEmpty(Split(field, ","))

RECURSIVE RaceCount(_)
RaceCount(groups) ==
    IF Len(groups) = 0 THEN 0
    ELSE Len(Head(groups).races) + RaceCount(Tail(groups))

\* the accepted rows of the roster table of catalogue block i
RosterOfBlock(i) == PlayersOf(BlockCatalog[i].trs)

\* C5: every race the extractor emits has 6 to 8 players and they are the
\* whole roster of a served block of that race number (a roster of 5 or fewer,
\* or of 9 or more, is never emitted cut or padded); every race of the grouped
\* document has 6 to 8 players, and the document holds exactly the table rows
\* whose players field has 6 to 8 entries.
C5_RosterSize ==
    /\ \A k \in 1..Len(emitted) :
          /\ InRange6To8(Len(emitted[k].players))
          /\ \E i \in served :
                /\ BlockCatalog[i].ordinal # <<>>
                /\ ParseInt(BlockCatalog[i].ordinal) = emitted[k].race_no
                /\ RosterOfBlock(i) = emitted[k].players
    /\ \A g \in 1..Len(out_json.groups) :
          \A i \in 1..Len(out_json.groups[g].races) :
              InRange6To8(Len(out_json.groups[g].races[i].players))
    /\ conv = "saved" =>
          RaceCount(out_json.groups) =
              Cardinality({k \in 1..Len(out_csv.rows) :
                  InRange6To8(Len(Entries(out_csv.rows[k].players)))})

C5_Witness ==
    /\ conv = "saved"
    /\ \E i \in served : Len(RosterOfBlock(i)) = 9
    /\ \E i \in served : Len(RosterOfBlock(i)) = 5
    /\ \E k \in 1..Len(out_csv.rows) : Len(Entries(out_csv.rows[k].players)) > 8
    /\ Len(out_json.groups) > 0

\* the (venue, grade) pairs of a sequence of rows, each at its first occurrence
RECURSIVE FirstOccurrences(_, _)
FirstOccurrences(rows, seen) ==
    IF Len(rows) = 0 THEN <<>>
    ELSE LET k == <<Head(rows).venue, Head(rows).grade>>
         IN IF k \in seen THEN FirstOccurrences(Tail(rows), seen)
            ELSE <<k>> \o FirstOccurrences(Tail(rows), seen \cup {k})

GroupKeys == [g \in 1..Len(out_json.groups) |->
                 <<out_json.groups[g].venue, out_json.groups[g].grade>>]

Ascending(races) ==
    \A i, j \in 1..Len(races) :
        i < j => races[i].race_number <= races[j].race_number

ValidRow(row) == InRange6To8(Len(Entries(row.players)))

\* C6 as stated: one group per distinct (venue, grade) pair of the input rows,
\* in the order of first occurrence in the input, races ascending by number.
C6_GroupsOfAllRows ==
    conv = "saved" =>
        /\ GroupKeys = FirstOccurrences(out_csv.rows, {})
        /\ \A g \in 1..Len(out_json.groups) : Ascending(out_json.groups[g].races)

\* C6 amended: one group per distinct (venue, grade) pair of the input rows
\* that pass the 6-to-8 players validation, in the order of first occurrence
\* among those rows, races ascending by number.
C6_GroupsOfValidRows ==
    conv = "saved" =>
        /\ GroupKeys = FirstOccurrences(SelectSeq(out_csv.rows, ValidRow), {})
        /\ \A g \in 1..Len(out_json.groups) : Ascending(out_json.groups[g].races)

C6_Witness ==
    /\ conv = "saved"
    /\ Len(out_json.groups) = 2
    /\ \E k \in 1..Len(out_csv.rows) : ~ValidRow(out_csv.rows[k])
    /\ \E i, j \in 1..Len(out_csv.rows) :
          /\ i < j
          /\ ValidRow(out_csv.rows[i]) /\ ValidRow(out_csv.rows[j])
          /\ out_csv.rows[i].venue = out_csv.rows[j].venue
          /\ out_csv.rows[i].grade = out_csv.rows[j].grade
          /\ ParseInt(out_csv.rows[i].race_number)
                 > ParseInt(out_csv.rows[j].race_number)

\* the grouped document of date ymd flattened back into table rows
FlatRows(groups, ymd) ==
    UNION { { [date |-> ymd, venue |-> groups[g].venue, grade |-> groups[g].grade,
               race_number |-> IntToStr(groups[g].races[i].race_number),
               start_time |-> groups[g].races[i].start_time,
               closed_at |-> groups[g].races[i].closed_at,
               players |-> Join(groups[g].races[i].players, ","),
               class_category |-> groups[g].races[i].class_category] :
              i \in 1..Len(groups[g].races) } : g \in 1..Len(groups) }

TableRowSet == {out_csv.rows[k] : k \in 1..Len(out_csv.rows)}

\* C7 as stated: grouping the table the crawler wrote and flattening the
\* document gives back the table's rows, up to order.
C7_RoundTrip ==
    conv = "saved" => FlatRows(out_json.groups, raceDy) = TableRowSet

NoCommaInNames ==
    \A k \in 1..Len(emitted) : \A i \in 1..Len(emitted[k].players) :
        Positions(emitted[k].players[i], ",") = {}

\* C7 amended: when no player entry the crawler extracted contains a comma,
\* grouping the table it wrote and flattening the document gives back the
\* table's rows, up to order.
C7_RoundTripWithoutCommas ==
    (conv = "saved" /\ NoCommaInNames) =>
        FlatRows(out_json.groups, raceDy) = TableRowSet

C7_Witness ==
    /\ conv = "saved"
    /\ NoCommaInNames
    /\ Len(out_json.groups) = 2
    /\ Cardinality(TableRowSet) >= 3

====
